---- MODULE Spec2Model ----
(***************************************************************************)
(* bittrickle: a UDP BitTorrent tracker.                                   *)
(*                                                                         *)
(* The model follows src/src/protocol.rs (the wire codec) and              *)
(* src/src/server.rs (the connection registry, the swarm registry and the  *)
(* run loop).  A datagram is a sequence of bytes (0..255); the codec is    *)
(* computed byte by byte as the code does it.                              *)
(*                                                                         *)
(* Number representation (TLC integers are 32 bits wide):                  *)
(*   i32  a signed integer, wrapped to 32 bits by shl8_i32                 *)
(*   u16  an integer 0..65535                                              *)
(*   u32  two 16-bit limbs  <<hi, lo>>                                     *)
(*   i64  four 16-bit limbs <<w3, w2, w1, w0>>, most significant first     *)
(*        (the two's-complement bit pattern of the value)                  *)
(* Option<T> is a sequence of length 0 (None) or 1 (Some).                 *)
(* HashMap<K,V> is a function whose DOMAIN is the set of keys present.     *)
(*                                                                         *)
(* One iteration of Server::run is three steps: Recv (recv_from and        *)
(* Request::from_bytes), one handler step (the whole of handle_request,    *)
(* the send included), LoopBack (the iteration's locals are dropped).      *)
(* The swarm counters are i32; MaxAnnounces keeps them far from the        *)
(* limits of i32, so their arithmetic is plain integer arithmetic here.    *)
(* The socket is a UdpSocket: send_to sends the whole slice or fails.      *)
(*                                                                         *)
(* SendSpec is a second specification: one call of write_to_socket, the    *)
(* loop taken one send_to at a time, with a socket that may report that    *)
(* it sent only a part of the slice it was offered.                        *)
(***************************************************************************)
EXTENDS Integers, Sequences, FiniteSets, TLC

VARIABLES
    pc,           \* where Server::run is: "recv", "handle", "done", "stopped"
                  \* (an I/O error was returned), "panicked"
    cur,          \* Option<[src, bytes, request]>: the datagram of this loop
                  \* iteration: its source, &read_buf[..amt], the decoded request
    out,          \* the responses handed to the socket in this loop iteration
    connections,  \* Server.connections : HashMap<SocketAddr, ConnectionID>
    torrents,     \* Server.torrents    : HashMap<InfoHash, TorrentInfo>
    issued,       \* history: the id carried by the last Connect response sent to each address
    announces,    \* history: how many authorized announces were handled
    sending,      \* Option<[w, src, start]>: the call of write_to_socket that
                  \* SendSpec follows: its arguments and its local `start`
    stops         \* history: the Stopped announces handle_peer applied for an
                  \* IPv4 address: [hash, addr, member (addr was in the peer set)]

vars == <<pc, cur, out, connections, torrents, issued, announces, sending, stops>>

\* ------------------------------------------------------------------ bounds

\* Authorized announces handled in one behaviour.
MaxAnnounces == 3

\* ------------------------------------------------------- integer helpers

\* acc <<= 8 on an i32: the low 24 bits move up, the top 8 bits fall off
\* (16777216 = 2^24, 8388608 = 2^23: bit 23 becomes the sign bit).
shl8_i32(acc) ==
    LET u == acc % 16777216
    IN  IF u >= 8388608 THEN (u - 16777216) * 256 ELSE u * 256

\* acc <<= 8 on a u16.
shl8_u16(acc) == (acc % 256) * 256

\* acc <<= 8 on a u32 held as two 16-bit limbs.
shl8_u32(acc) ==
    << (acc[1] % 256) * 256 + (acc[2] \div 256),
       (acc[2] % 256) * 256 >>

\* acc <<= 8 on an i64 held as four 16-bit limbs.
shl8_i64(acc) ==
    << (acc[1] % 256) * 256 + (acc[2] \div 256),
       (acc[2] % 256) * 256 + (acc[3] \div 256),
       (acc[3] % 256) * 256 + (acc[4] \div 256),
       (acc[4] % 256) * 256 >>

\* &bytes[from..] (from is a 0-based offset).  The slice panics when from is
\* past the end of bytes: the CASE has no arm for it, and its evaluation
\* stops there.
SliceFrom(bytes, from) ==
    CASE from <= Len(bytes) -> SubSeq(bytes, from + 1, Len(bytes))

\* &bytes[from..to].  The slice panics when from is past to or to is past
\* the end of bytes: the CASE has no arm for it.
Slice(bytes, from, to) ==
    CASE from <= to /\ to <= Len(bytes) -> SubSeq(bytes, from + 1, to)

RECURSIVE read_i32_loop(_, _, _)
read_i32_loop(bytes, i, acc) ==
    IF i > 4 THEN acc
    ELSE read_i32_loop(bytes, i + 1, shl8_i32(acc) + bytes[i])

read_i32(bytes) == read_i32_loop(bytes, 1, 0)

RECURSIVE read_i64_loop(_, _, _)
read_i64_loop(bytes, i, acc) ==
    IF i > 8 THEN acc
    ELSE LET s == shl8_i64(acc)
         IN  read_i64_loop(bytes, i + 1, <<s[1], s[2], s[3], s[4] + bytes[i]>>)

read_i64(bytes) == read_i64_loop(bytes, 1, <<0, 0, 0, 0>>)

RECURSIVE read_u16_loop(_, _, _)
read_u16_loop(bytes, i, acc) ==
    IF i > 2 THEN acc
    ELSE read_u16_loop(bytes, i + 1, shl8_u16(acc) + bytes[i])

read_u16(bytes) == read_u16_loop(bytes, 1, 0)

RECURSIVE read_u32_loop(_, _, _)
read_u32_loop(bytes, i, acc) ==
    IF i > 4 THEN acc
    ELSE LET s == shl8_u32(acc)
         IN  read_u32_loop(bytes, i + 1, <<s[1], s[2] + bytes[i]>>)

read_u32(bytes) == read_u32_loop(bytes, 1, <<0, 0>>)

\* (num >> shift) as u8, for shift = 8 * k, on an i32 (arithmetic shift).
byte_of_i32(num, k) ==
    CASE k = 0 -> num % 256
      [] k = 1 -> (num \div 256) % 256
      [] k = 2 -> (num \div 65536) % 256
      [] k = 3 -> (num \div 16777216) % 256

write_u32(num) ==
    << num[1] \div 256, num[1] % 256, num[2] \div 256, num[2] % 256 >>

write_i64(num) ==
    << num[1] \div 256, num[1] % 256, num[2] \div 256, num[2] % 256,
       num[3] \div 256, num[3] % 256, num[4] \div 256, num[4] % 256 >>

write_i32(num) ==
    << byte_of_i32(num, 3), byte_of_i32(num, 2),
       byte_of_i32(num, 1), byte_of_i32(num, 0) >>

\* ---------------------------------------------------------------- codec

Ok(v) == [ok |-> TRUE, val |-> v]
Err(e) == [ok |-> FALSE, err |-> e]

Action_from_i32(id) ==
    CASE id = 0 -> Ok("Connect")
      [] id = 1 -> Ok("Announce")
      [] id = 2 -> Ok("Scrape")
      [] OTHER  -> Err("UnknownAction")

RequestHeader_from_bytes(bytes) ==
    IF Len(bytes) < 12 THEN Err("InsufficientBytes")
    ELSE LET connection_id == read_i64(bytes)
             action == Action_from_i32(read_i32(SliceFrom(bytes, 8)))
         IN  IF ~action.ok THEN action
             ELSE Ok([connection_id |-> connection_id, action |-> action.val])

ConnectRequest_from_bytes(connection_id, bytes) ==
    IF Len(bytes) < 16 THEN Err("InsufficientBytes")
    ELSE Ok([kind |-> "Connect",
             connection_id |-> connection_id,
             transaction_id |-> read_i32(SliceFrom(bytes, 12))])

\* Mutant of AnnounceEvent_from_i32: an unknown event is read as Nothing.
AnnounceEvent_from_i32_lenient(num) ==
    CASE num = 1 -> Ok("Completed")
      [] num = 2 -> Ok("Started")
      [] num = 3 -> Ok("Stopped")
      [] OTHER   -> Ok("Nothing")

AnnounceEvent_from_i32(num) ==
    CASE num = 0 -> Ok("Nothing")
      [] num = 1 -> Ok("Completed")
      [] num = 2 -> Ok("Started")
      [] num = 3 -> Ok("Stopped")
      [] OTHER   -> Err("UnkownAnnounceEvent")

\* Mutant of AnnounceRequest_from_bytes: the event is decoded as soon as its
\* four bytes are there, before the length of the whole request is checked.
AnnounceRequest_from_bytes_event_first(connection_id, bytes) ==
    LET event == IF Len(bytes) < 84 THEN Err("InsufficientBytes")
                 ELSE AnnounceEvent_from_i32(read_i32(SliceFrom(bytes, 80)))
    IN  IF ~event.ok THEN event
        ELSE IF Len(bytes) < 98 THEN Err("InsufficientBytes")
        ELSE Ok([kind |-> "Announce",
                 connection_id |-> connection_id,
                 transaction_id |-> read_i32(SliceFrom(bytes, 12)),
                 info_hash |-> Slice(bytes, 16, 36),
                 peer_id |-> Slice(bytes, 36, 56),
                 downloaded |-> read_i64(SliceFrom(bytes, 56)),
                 left |-> read_i64(SliceFrom(bytes, 64)),
                 uploaded |-> read_i64(SliceFrom(bytes, 72)),
                 event |-> event.val,
                 ip |-> read_u32(SliceFrom(bytes, 84)),
                 key |-> read_u32(SliceFrom(bytes, 88)),
                 num_want |-> read_i32(SliceFrom(bytes, 92)),
                 port |-> read_u16(SliceFrom(bytes, 96))])

AnnounceRequest_from_bytes(connection_id, bytes) ==
    IF Len(bytes) < 98 THEN Err("InsufficientBytes")
    ELSE LET info_hash == Slice(bytes, 16, 36)
             peer_id == Slice(bytes, 36, 56)
             event == AnnounceEvent_from_i32(read_i32(SliceFrom(bytes, 80)))
         IN  IF ~event.ok THEN event
             ELSE Ok([kind |-> "Announce",
                      connection_id |-> connection_id,
                      transaction_id |-> read_i32(SliceFrom(bytes, 12)),
                      info_hash |-> info_hash,
                      peer_id |-> peer_id,
                      downloaded |-> read_i64(SliceFrom(bytes, 56)),
                      left |-> read_i64(SliceFrom(bytes, 64)),
                      uploaded |-> read_i64(SliceFrom(bytes, 72)),
                      event |-> event.val,
                      ip |-> read_u32(SliceFrom(bytes, 84)),
                      key |-> read_u32(SliceFrom(bytes, 88)),
                      num_want |-> read_i32(SliceFrom(bytes, 92)),
                      port |-> read_u16(SliceFrom(bytes, 96))])

\* Mutant of ScrapeRequest_hashes: each hash is put in front of those read
\* before it.
RECURSIVE ScrapeRequest_hashes_reversed(_, _, _)
ScrapeRequest_hashes_reversed(bytes, i, info_hashes) ==
    IF i < Len(bytes)
    THEN ScrapeRequest_hashes_reversed(bytes, i + 20,
                                       << Slice(bytes, i, i + 20) >> \o info_hashes)
    ELSE info_hashes

RECURSIVE ScrapeRequest_hashes(_, _, _)
ScrapeRequest_hashes(bytes, i, info_hashes) ==
    IF i < Len(bytes)
    THEN ScrapeRequest_hashes(bytes, i + 20,
                              Append(info_hashes, Slice(bytes, i, i + 20)))
    ELSE info_hashes

ScrapeRequest_from_bytes(connection_id, bytes) ==
    LET len == Len(bytes)
    IN  IF len < 16 \/ (len - 16) % 20 # 0 THEN Err("InsufficientBytes")
        ELSE Ok([kind |-> "Scrape",
                 connection_id |-> connection_id,
                 transaction_id |-> read_i32(SliceFrom(bytes, 12)),
                 info_hashes |-> ScrapeRequest_hashes(bytes, 16, <<>>)])

Request_from_bytes(bytes) ==
    LET header == RequestHeader_from_bytes(bytes)
    IN  IF ~header.ok THEN header
        ELSE CASE header.val.action = "Connect" ->
                    ConnectRequest_from_bytes(header.val.connection_id, bytes)
               [] header.val.action = "Announce" ->
                    AnnounceRequest_from_bytes(header.val.connection_id, bytes)
               [] header.val.action = "Scrape" ->
                    ScrapeRequest_from_bytes(header.val.connection_id, bytes)


\* Writable::write of a ConnectResponse: the bytes written to write_buf[..16].
ConnectResponse_write(r) ==
    write_u32(<<0, 0>>) \o write_i32(r.transaction_id) \o write_i64(r.connection_id)

\* One peer of an Announce response: 4 bytes of IPv4 address, 2 bytes of port.
Peer_write(p) == p.ip \o << p.port \div 256, p.port % 256 >>

\* The peers of an Announce response, one after the other: byte i is byte
\* (i - 1) % 6 of peer (i - 1) \div 6 (both counted from 0).
Peers_write(peers) ==
    [i \in 1..(6 * Len(peers)) |->
        Peer_write(peers[((i - 1) \div 6) + 1])[((i - 1) % 6) + 1]]

\* Writable::write of an AnnounceResponse (20 bytes + 6 per peer).
AnnounceResponse_write(r) ==
    write_u32(<<0, 1>>) \o write_i32(r.transaction_id) \o write_i32(r.interval)
        \o write_i32(r.leechers) \o write_i32(r.seeders) \o Peers_write(r.peers)

ScrapeInfo_write(s) ==
    write_i32(s.seeders) \o write_i32(s.completed) \o write_i32(s.leechers)

RECURSIVE Scrapes_write(_)
Scrapes_write(scrapes) ==
    IF scrapes = <<>> THEN <<>>
    ELSE ScrapeInfo_write(Head(scrapes)) \o Scrapes_write(Tail(scrapes))

\* Writable::write of a ScrapeResponse (8 bytes + 12 per hash).
ScrapeResponse_write(r) ==
    write_u32(<<0, 2>>) \o write_i32(r.transaction_id) \o Scrapes_write(r.scrapes)

\* w.write(&mut self.write_buf): dispatch on the response type.
Writable_write(w) ==
    CASE w.type = "ConnectResponse"  -> ConnectResponse_write(w)
      [] w.type = "AnnounceResponse" -> AnnounceResponse_write(w)
      [] w.type = "ScrapeResponse"   -> ScrapeResponse_write(w)

\* ------------------------------------------------------- connection ids

\* The protocol magic 0x41727101980 = 0x0000 0417 2710 1980.
MagicId == <<0, 1047, 10000, 6528>>

ConnectionID_is_magic_id(id) == id = MagicId

\* Two values ConnectionID::random may return: 0x0102030405060708 and a
\* negative one, 0xFFFFFFFFFFFFFFFE.
Id1 == <<258, 772, 1286, 1800>>
Id2 == <<65535, 65535, 65535, 65534>>

\* The values ConnectionID::random(&mut rng) is drawn from in the model.
ConnectionID_random == {Id1, Id2}

\* ------------------------------------------------------------ addresses

\* SocketAddr::V4(SocketAddrV4) / SocketAddr::V6(SocketAddrV6)
V4(ip, port) == [family |-> "V4", addr |-> [ip |-> ip, port |-> port]]
V6(ip, port) == [family |-> "V6", addr |-> [ip |-> ip, port |-> port]]

PeerA == V4(<<10, 0, 0, 1>>, 6881)
PeerB == V4(<<10, 0, 0, 2>>, 51413)
PeerSix == V6(<<0, 0, 0, 0, 0, 0, 0, 1>>, 6881)

\* The source addresses datagrams arrive from.
Sources == {PeerA, PeerB, PeerSix}

\* --------------------------------------------------------- TorrentInfo

\* Mutant of handle_peer: Started counts a leecher whether or not the address
\* was already in the peer set.
handle_peer_started_always(info, peer, event) ==
    IF peer.family = "V4"
    THEN CASE event = "Nothing" -> info
           [] event = "Completed" ->
                [info EXCEPT !.leechers = @ - 1,
                             !.seeders = @ + 1,
                             !.completed = @ + 1]
           [] event = "Started" ->
                [info EXCEPT !.peers = @ \cup {peer.addr},
                             !.leechers = @ + 1]
           [] event = "Stopped" ->
                [info EXCEPT !.leechers = @ - 1]
    ELSE info

\* Mutant of handle_peer: Completed adds a seeder and leaves the leechers.
handle_peer_completed_keeps_leecher(info, peer, event) ==
    IF peer.family = "V4"
    THEN CASE event = "Nothing" -> info
           [] event = "Completed" ->
                [info EXCEPT !.seeders = @ + 1,
                             !.completed = @ + 1]
           [] event = "Started" ->
                IF peer.addr \notin info.peers
                THEN [info EXCEPT !.peers = @ \cup {peer.addr},
                                  !.leechers = @ + 1]
                ELSE info
           [] event = "Stopped" ->
                [info EXCEPT !.leechers = @ - 1]
    ELSE info

\* Mutant of handle_peer: Stopped takes the address out of the peer set.
handle_peer_stopped_leaves(info, peer, event) ==
    IF peer.family = "V4"
    THEN CASE event = "Nothing" -> info
           [] event = "Completed" ->
                [info EXCEPT !.leechers = @ - 1,
                             !.seeders = @ + 1,
                             !.completed = @ + 1]
           [] event = "Started" ->
                IF peer.addr \notin info.peers
                THEN [info EXCEPT !.peers = @ \cup {peer.addr},
                                  !.leechers = @ + 1]
                ELSE info
           [] event = "Stopped" ->
                [info EXCEPT !.leechers = @ - 1,
                             !.peers = @ \ {peer.addr}]
    ELSE info

\* Mutant of handle_peer: Completed counts only for an address of the peer set.
handle_peer_completed_members_only(info, peer, event) ==
    IF peer.family = "V4"
    THEN CASE event = "Nothing" -> info
           [] event = "Completed" ->
                IF peer.addr \in info.peers
                THEN [info EXCEPT !.leechers = @ - 1,
                                  !.seeders = @ + 1,
                                  !.completed = @ + 1]
                ELSE info
           [] event = "Started" ->
                IF peer.addr \notin info.peers
                THEN [info EXCEPT !.peers = @ \cup {peer.addr},
                                  !.leechers = @ + 1]
                ELSE info
           [] event = "Stopped" ->
                [info EXCEPT !.leechers = @ - 1]
    ELSE info

\* Mutant of handle_peer: Completed does not count the completion.
handle_peer_completed_uncounted(info, peer, event) ==
    IF peer.family = "V4"
    THEN CASE event = "Nothing" -> info
           [] event = "Completed" ->
                [info EXCEPT !.leechers = @ - 1,
                             !.seeders = @ + 1]
           [] event = "Started" ->
                IF peer.addr \notin info.peers
                THEN [info EXCEPT !.peers = @ \cup {peer.addr},
                                  !.leechers = @ + 1]
                ELSE info
           [] event = "Stopped" ->
                [info EXCEPT !.leechers = @ - 1]
    ELSE info

\* TorrentInfo::handle_peer: the swarm after `peer` announced `event`.
handle_peer(info, peer, event) ==
    IF peer.family = "V4"
    THEN CASE event = "Nothing" -> info
           [] event = "Completed" ->
                [info EXCEPT !.leechers = @ - 1,
                             !.seeders = @ + 1,
                             !.completed = @ + 1]
           [] event = "Started" ->
                IF peer.addr \notin info.peers
                THEN [info EXCEPT !.peers = @ \cup {peer.addr},
                                  !.leechers = @ + 1]
                ELSE info
           [] event = "Stopped" ->
                [info EXCEPT !.leechers = @ - 1]
    ELSE info

\* Mutant of from_first_peer: the first peer is counted as a leecher.
from_first_peer_as_leecher(peer) ==
    LET info == [leechers |-> 0, completed |-> 0, seeders |-> 0, peers |-> {}]
    IN  IF peer.family = "V4"
        THEN [info EXCEPT !.peers = @ \cup {peer.addr}, !.leechers = @ + 1]
        ELSE info

\* Mutant of from_first_peer: the first peer is counted as a seeder and is
\* not put in the peer set.
from_first_peer_unlisted(peer) ==
    LET info == [leechers |-> 0, completed |-> 0, seeders |-> 0, peers |-> {}]
    IN  IF peer.family = "V4"
        THEN [info EXCEPT !.seeders = @ + 1]
        ELSE info

\* TorrentInfo::from_first_peer
from_first_peer(peer) ==
    LET info == [leechers |-> 0, completed |-> 0, seeders |-> 0, peers |-> {}]
    IN  IF peer.family = "V4"
        THEN [info EXCEPT !.peers = @ \cup {peer.addr}, !.seeders = @ + 1]
        ELSE info

\* TorrentInfo::sample_peers: the whole peer set, in the HashSet's iteration
\* order, which is unspecified: every enumeration of the set is possible.
sample_peers(info) ==
    LET n == Cardinality(info.peers)
    IN  { acc \in [1..n -> info.peers] :
            \A i, j \in 1..n : i # j => acc[i] # acc[j] }


\* --------------------------------------------------------------- Server

\* HashMap::new, HashMap::get, HashMap::insert
EmptyMap == [k \in {} |-> k]
Get(map, k) == IF k \in DOMAIN map THEN <<map[k]>> ELSE <<>>

\* Mutant of Insert: an entry that exists is kept (entry().or_insert()).
Insert_if_vacant(map, k, v) ==
    [x \in DOMAIN map \cup {k} |-> IF x \in DOMAIN map THEN map[x] ELSE v]

Insert(map, k, v) == [x \in DOMAIN map \cup {k} |-> IF x = k THEN v ELSE map[x]]

\* vec![0; 2048]: the length of read_buf and of write_buf.
BufLen == 2048

\* What UdpSocket::send_to returns for one datagram: the whole slice is sent
\* ("Sent": Ok(slice.len())) or the call fails ("Err").
SendResults == {"Sent", "Err"}

\* Mutant of write_to_socket: the buffer is sent a second time.
write_to_socket_twice(w, src, send) ==
    LET buf == Writable_write(w)
        count == Len(buf)
        datagram == [dest |-> src, response |-> w, bytes |-> buf]
    IN  IF count > BufLen THEN [sent |-> <<>>, ok |-> FALSE, panic |-> TRUE]
        ELSE IF count = 0 THEN [sent |-> <<>>, ok |-> TRUE, panic |-> FALSE]
        ELSE IF send = "Err" THEN [sent |-> <<>>, ok |-> FALSE, panic |-> FALSE]
        ELSE [sent |-> << datagram, datagram >>, ok |-> TRUE, panic |-> FALSE]

\* Mutant of write_to_socket: a send that failed is tried once more, and the
\* error of the first attempt is returned all the same.
write_to_socket_retry(w, src, send) ==
    LET buf == Writable_write(w)
        count == Len(buf)
        datagram == [dest |-> src, response |-> w, bytes |-> buf]
    IN  IF count > BufLen THEN [sent |-> <<>>, ok |-> FALSE, panic |-> TRUE]
        ELSE IF count = 0 THEN [sent |-> <<>>, ok |-> TRUE, panic |-> FALSE]
        ELSE IF send = "Err"
             THEN [sent |-> << datagram >>, ok |-> FALSE, panic |-> FALSE]
        ELSE [sent |-> << datagram >>, ok |-> TRUE, panic |-> FALSE]

\* Server::write_to_socket: the datagrams handed to the socket, whether the
\* call returned Ok, and whether it panicked.  write_buf has BufLen bytes: a
\* response of more bytes cannot be written into it or sliced out of it
\* (&self.write_buf[start..count]), and the call panics before any send_to.
write_to_socket(w, src, send) ==
    LET buf == Writable_write(w)
        count == Len(buf)
    IN  IF count > BufLen THEN [sent |-> <<>>, ok |-> FALSE, panic |-> TRUE]
        ELSE IF count = 0 THEN [sent |-> <<>>, ok |-> TRUE, panic |-> FALSE]
        ELSE IF send = "Err" THEN [sent |-> <<>>, ok |-> FALSE, panic |-> FALSE]
        ELSE [sent |-> << [dest |-> src, response |-> w, bytes |-> buf] >>,
              ok |-> TRUE, panic |-> FALSE]

\* The announce interval: 15 * 60 seconds.
Interval == 900

\* Mutant of connection_matches: the id is looked up under any address.
connection_matches_any_address(src, connection_id) ==
    \E a \in DOMAIN connections : connections[a] = connection_id

\* `Some(&req.connection_id) == self.connections.get(&src)`: the gate of
\* handle_announce and handle_scrape.
connection_matches(src, connection_id) ==
    <<connection_id>> = Get(connections, src)

\* Mutant of handle_connect: the magic id is not checked.
handle_connect_ungated(src, req) ==
    \E connection_id \in ConnectionID_random, send \in SendResults :
        LET response == [type |-> "ConnectResponse",
                         transaction_id |-> req.transaction_id,
                         connection_id |-> connection_id]
            w == write_to_socket(response, src, send)
        IN  /\ out' = w.sent
            /\ IF w.ok
               THEN /\ connections' = Insert(connections, src, connection_id)
                    /\ pc' = "done"
               ELSE /\ UNCHANGED connections
                    /\ pc' = IF w.panic THEN "panicked" ELSE "stopped"
            /\ UNCHANGED <<cur, torrents>>

\* Server::handle_connect
handle_connect(src, req) ==
    IF ConnectionID_is_magic_id(req.connection_id)
    THEN \E connection_id \in ConnectionID_random, send \in SendResults :
            LET response == [type |-> "ConnectResponse",
                             transaction_id |-> req.transaction_id,
                             connection_id |-> connection_id]
                w == write_to_socket(response, src, send)
            IN  /\ out' = w.sent
                /\ IF w.ok
                   THEN /\ connections' = Insert(connections, src, connection_id)
                        /\ pc' = "done"
                   ELSE /\ UNCHANGED connections
                        /\ pc' = IF w.panic THEN "panicked" ELSE "stopped"
                /\ UNCHANGED <<cur, torrents>>
    ELSE /\ pc' = "done"
         /\ UNCHANGED <<cur, out, connections, torrents>>

\* Mutant of handle_announce: the peer is the address the request's ip and
\* port fields give, when the ip field is not zero.
handle_announce_by_ip_field(src, req) ==
    IF connection_matches(src, req.connection_id)
    THEN LET peer == IF req.ip # <<0, 0>>
                     THEN V4(write_u32(req.ip), req.port)
                     ELSE src
             found == Get(torrents, req.info_hash)
             info == IF found # <<>>
                     THEN handle_peer(found[1], peer, req.event)
                     ELSE from_first_peer(peer)
         IN  /\ torrents' = Insert(torrents, req.info_hash, info)
             /\ \E peers \in sample_peers(info), send \in SendResults :
                   LET response == [type |-> "AnnounceResponse",
                                    transaction_id |-> req.transaction_id,
                                    interval |-> Interval,
                                    leechers |-> info.leechers,
                                    seeders |-> info.seeders,
                                    peers |-> peers]
                       w == write_to_socket(response, src, send)
                   IN  /\ out' = w.sent
                       /\ pc' = IF w.panic THEN "panicked"
                                ELSE IF w.ok THEN "done" ELSE "stopped"
             /\ UNCHANGED <<cur, connections>>
    ELSE /\ pc' = "done"
         /\ UNCHANGED <<cur, out, connections, torrents>>

\* Server::handle_announce
handle_announce(src, req) ==
    IF connection_matches(src, req.connection_id)
    THEN LET found == Get(torrents, req.info_hash)
             info == IF found # <<>>
                     THEN handle_peer(found[1], src, req.event)
                     ELSE from_first_peer(src)
         IN  /\ torrents' = Insert(torrents, req.info_hash, info)
             /\ \E peers \in sample_peers(info), send \in SendResults :
                   LET response == [type |-> "AnnounceResponse",
                                    transaction_id |-> req.transaction_id,
                                    interval |-> Interval,
                                    leechers |-> info.leechers,
                                    seeders |-> info.seeders,
                                    peers |-> peers]
                       w == write_to_socket(response, src, send)
                   IN  /\ out' = w.sent
                       /\ pc' = IF w.panic THEN "panicked"
                                ELSE IF w.ok THEN "done" ELSE "stopped"
             /\ UNCHANGED <<cur, connections>>
    ELSE /\ pc' = "done"
         /\ UNCHANGED <<cur, out, connections, torrents>>

ScrapeInfo_empty == [seeders |-> 0, completed |-> 0, leechers |-> 0]

\* Mutant of handle_scrape_loop: a hash that has no swarm is skipped.
RECURSIVE handle_scrape_loop_skip_unknown(_, _)
handle_scrape_loop_skip_unknown(info_hashes, scrapes) ==
    IF info_hashes = <<>> THEN scrapes
    ELSE LET found == Get(torrents, Head(info_hashes))
         IN  IF found # <<>>
             THEN handle_scrape_loop_skip_unknown(
                      Tail(info_hashes),
                      Append(scrapes, [seeders |-> found[1].seeders,
                                       completed |-> found[1].completed,
                                       leechers |-> found[1].leechers]))
             ELSE handle_scrape_loop_skip_unknown(Tail(info_hashes), scrapes)

\* The loop of handle_scrape: one ScrapeInfo per requested hash, in order.
RECURSIVE handle_scrape_loop(_, _)
handle_scrape_loop(info_hashes, scrapes) ==
    IF info_hashes = <<>> THEN scrapes
    ELSE LET found == Get(torrents, Head(info_hashes))
             scrape == IF found # <<>>
                       THEN [seeders |-> found[1].seeders,
                             completed |-> found[1].completed,
                             leechers |-> found[1].leechers]
                       ELSE ScrapeInfo_empty
         IN  handle_scrape_loop(Tail(info_hashes), Append(scrapes, scrape))

\* Server::handle_scrape
handle_scrape(src, req) ==
    IF connection_matches(src, req.connection_id)
    THEN \E send \in SendResults :
            LET scrapes == handle_scrape_loop(req.info_hashes, <<>>)
                response == [type |-> "ScrapeResponse",
                             transaction_id |-> req.transaction_id,
                             scrapes |-> scrapes]
                w == write_to_socket(response, src, send)
            IN  /\ out' = w.sent
                /\ pc' = IF w.panic THEN "panicked"
                         ELSE IF w.ok THEN "done" ELSE "stopped"
                /\ UNCHANGED <<cur, connections, torrents>>
    ELSE /\ pc' = "done"
         /\ UNCHANGED <<cur, out, connections, torrents>>

\* Server::handle_request
handle_request(src, request) ==
    CASE request.kind = "Connect"  -> handle_connect(src, request)
      [] request.kind = "Announce" -> handle_announce(src, request)
      [] request.kind = "Scrape"   -> handle_scrape(src, request)


\* ------------------------------------------------------------ datagrams
\* What clients put on the wire.  The layouts are those of the tests of
\* protocol.rs (parse_connect, parse_announce, parse_scrape).

Fill(byte, n) == [i \in 1..n |-> byte]

Hash1 == Fill(1, 20)
Hash2 == Fill(2, 20)

\* Transaction ids: 16 (parse_connect) and a negative one, -2.
Tid1 == 16
Tid2 == read_i32(<<255, 255, 255, 254>>)

\* A connection id that no one issues and that is not the magic (magic + 1).
NearMagicId == <<0, 1047, 10000, 6529>>

ConnectDatagram(connection_id, transaction_id) ==
    write_i64(connection_id) \o write_i32(0) \o write_i32(transaction_id)

\* The announce of parse_announce with the given id, transaction, hash, event code.
AnnounceDatagram(connection_id, transaction_id, info_hash, event) ==
    write_i64(connection_id) \o write_i32(1) \o write_i32(transaction_id)
        \o info_hash \o Fill(2, 20)
        \o write_i64(<<0, 0, 0, 1>>) \o write_i64(<<0, 0, 0, 1>>)
        \o write_i64(<<0, 0, 0, 1>>)
        \o write_i32(event) \o write_u32(<<0, 0>>) \o write_u32(<<0, 1>>)
        \o write_i32(1) \o <<0, 1>>

\* The fields of an announce the tracker does not act on, as parse_announce
\* has them, and with every one of them different: another peer id, other
\* byte counts (zero, -1, 2^32), the ip and the port of PeerB, another key,
\* num_want -1.
TestFields ==
    [peer_id |-> Fill(2, 20),
     downloaded |-> <<0, 0, 0, 1>>, left |-> <<0, 0, 0, 1>>,
     uploaded |-> <<0, 0, 0, 1>>,
     ip |-> <<0, 0>>, key |-> <<0, 1>>, num_want |-> 1, port |-> 1]
OtherFields ==
    [peer_id |-> Fill(9, 20),
     downloaded |-> <<0, 0, 0, 0>>, left |-> <<65535, 65535, 65535, 65535>>,
     uploaded |-> <<0, 1, 0, 0>>,
     ip |-> <<2560, 2>>, key |-> <<65535, 65535>>, num_want |-> -1,
     port |-> 51413]

\* An announce with the given client-supplied fields.
AnnounceDatagramWith(connection_id, transaction_id, info_hash, event, f) ==
    write_i64(connection_id) \o write_i32(1) \o write_i32(transaction_id)
        \o info_hash \o f.peer_id
        \o write_i64(f.downloaded) \o write_i64(f.left) \o write_i64(f.uploaded)
        \o write_i32(event) \o write_u32(f.ip) \o write_u32(f.key)
        \o write_i32(f.num_want) \o << f.port \div 256, f.port % 256 >>

RECURSIVE Flatten(_)
Flatten(seqs) == IF seqs = <<>> THEN <<>> ELSE Head(seqs) \o Flatten(Tail(seqs))

ScrapeDatagram(connection_id, transaction_id, info_hashes) ==
    write_i64(connection_id) \o write_i32(2) \o write_i32(transaction_id)
        \o Flatten(info_hashes)

WellFormedDatagrams ==
    {ConnectDatagram(MagicId, Tid1), ConnectDatagram(MagicId, Tid2),
     ConnectDatagram(NearMagicId, Tid1), ConnectDatagram(Id1, Tid1)}
    \cup {AnnounceDatagram(c, Tid1, h, e) :
            c \in {Id1, Id2}, h \in {Hash1, Hash2}, e \in 0..3}
    \cup {AnnounceDatagram(Id1, Tid2, Hash1, 2),
          AnnounceDatagram(MagicId, Tid1, Hash1, 2)}
    \cup {AnnounceDatagramWith(Id1, Tid1, Hash1, e, OtherFields) : e \in {1, 2}}
    \cup {ScrapeDatagram(Id1, Tid1, hs) :
            hs \in {<<>>, <<Hash1>>, <<Hash1, Hash2>>, <<Hash2, Hash1>>,
                    <<Hash1, Hash1>>}}
    \cup {ScrapeDatagram(Id2, Tid2, <<Hash1, Hash2>>),
          ScrapeDatagram(MagicId, Tid1, <<Hash1>>)}

\* Datagrams Request::from_bytes rejects: empty, a header cut at 11 bytes,
\* actions 3 and -1, a connect of 15 bytes, an announce of 97 bytes, an
\* announce with event 4, a scrape with a hash cut at 19 bytes.
MalformedDatagrams ==
    {<<>>,
     SubSeq(ConnectDatagram(MagicId, Tid1), 1, 11),
     write_i64(MagicId) \o write_i32(3) \o write_i32(Tid1),
     write_i64(Id1) \o write_i32(-1) \o write_i32(Tid1),
     SubSeq(ConnectDatagram(MagicId, Tid1), 1, 15),
     SubSeq(AnnounceDatagram(Id1, Tid1, Hash1, 2), 1, 97),
     AnnounceDatagram(Id1, Tid1, Hash1, 4),
     SubSeq(ScrapeDatagram(Id1, Tid1, <<Hash1, Hash2>>), 1, 55)}

Datagrams == WellFormedDatagrams \cup MalformedDatagrams

\* ------------------------------------------------------------- run loop

\* Server::new (the maps are empty) and the entry of Server::run.
Init ==
    /\ pc = "recv"
    /\ cur = <<>>
    /\ out = <<>>
    /\ connections = EmptyMap
    /\ torrents = EmptyMap
    /\ issued = EmptyMap
    /\ announces = 0
    /\ sending = <<>>
    /\ stops = {}

\* socket.recv_from(&mut read_buf) returns (amt, src); the datagram is cut to
\* the buffer; Request::from_bytes(&read_buf[..amt]).
Recv(src, datagram) ==
    /\ pc = "recv"
    /\ LET amt == IF Len(datagram) < BufLen THEN Len(datagram) ELSE BufLen
           bytes == SubSeq(datagram, 1, amt)
           request == Request_from_bytes(bytes)
       IN  cur' = << [src |-> src, bytes |-> bytes, request |-> request] >>
    /\ pc' = "handle"
    /\ UNCHANGED <<out, connections, torrents, issued, announces, sending, stops>>

\* socket.recv_from fails: run returns the error.
RecvFail ==
    /\ pc = "recv"
    /\ pc' = "stopped"
    /\ UNCHANGED <<cur, out, connections, torrents, issued, announces, sending, stops>>

\* `if let Ok(r) = request` does not match: nothing is done.
DropUndecoded ==
    /\ pc = "handle"
    /\ ~cur[1].request.ok
    /\ pc' = "done"
    /\ UNCHANGED <<cur, out, connections, torrents, issued, announces, sending, stops>>

\* `self.handle_request(src, &r)?` for a Connect request.  The history
\* variable `issued` records the id of the response that reached the client.
HandleConnect ==
    /\ pc = "handle"
    /\ cur[1].request.ok
    /\ cur[1].request.val.kind = "Connect"
    /\ handle_request(cur[1].src, cur[1].request.val)
    /\ issued' = IF out' # <<>>
                 THEN [a \in DOMAIN issued \cup {cur[1].src} |->
                         IF a = cur[1].src
                         THEN out'[1].response.connection_id
                         ELSE issued[a]]
                 ELSE issued
    /\ UNCHANGED <<announces, sending, stops>>

\* `self.handle_request(src, &r)?` for an Announce request.  The history
\* variable `announces` counts the announces that were let through; `stops`
\* records those of them that were a Stopped from an IPv4 address on a swarm
\* that existed.
HandleAnnounce ==
    /\ pc = "handle"
    /\ cur[1].request.ok
    /\ cur[1].request.val.kind = "Announce"
    /\ handle_request(cur[1].src, cur[1].request.val)
    /\ announces' = IF \/ torrents' # torrents
                       \/ out' # <<>>
                       \/ pc' \in {"stopped", "panicked"}
                    THEN announces + 1
                    ELSE announces
    /\ stops' = IF /\ announces' # announces
                   /\ cur[1].request.val.event = "Stopped"
                   /\ cur[1].src.family = "V4"
                   /\ cur[1].request.val.info_hash \in DOMAIN torrents
                THEN stops \cup
                       {[hash |-> cur[1].request.val.info_hash,
                         addr |-> cur[1].src.addr,
                         member |-> cur[1].src.addr
                                      \in torrents[cur[1].request.val.info_hash].peers]}
                ELSE stops
    /\ UNCHANGED <<issued, sending>>

\* `self.handle_request(src, &r)?` for a Scrape request.
HandleScrape ==
    /\ pc = "handle"
    /\ cur[1].request.ok
    /\ cur[1].request.val.kind = "Scrape"
    /\ handle_request(cur[1].src, cur[1].request.val)
    /\ UNCHANGED <<issued, announces, sending, stops>>

\* The end of one iteration of `loop`: the request and the response are
\* dropped and run blocks in recv_from again.
LoopBack ==
    /\ pc = "done"
    /\ pc' = "recv"
    /\ cur' = <<>>
    /\ out' = <<>>
    /\ UNCHANGED <<connections, torrents, issued, announces, sending, stops>>

\* The datagrams that may still arrive: no announce once MaxAnnounces were
\* let through.
Arriving ==
    IF announces < MaxAnnounces THEN Datagrams
    ELSE {d \in Datagrams : Len(d) < 12 \/ read_i32(SliceFrom(d, 8)) # 1}

Next ==
    \/ \E src \in Sources, datagram \in Arriving : Recv(src, datagram)
    \/ RecvFail
    \/ DropUndecoded
    \/ HandleConnect
    \/ HandleAnnounce
    \/ HandleScrape
    \/ LoopBack

Spec == Init /\ [][Next]_vars


\* ------------------------------------------------- the decoder on its own
\* CodecSpec: Server::run receives one datagram and decodes it.  The
\* datagrams are those of Spec, three that fill the read buffer or nearly
\* (a scrape of as many hashes as fit, the same with zeros up to 2048 bytes,
\* an announce followed by zeros up to 2048 bytes), requests followed by
\* bytes they do not need, and every one of these cut at every length.

LongDatagrams ==
    LET most == ScrapeDatagram(Id1, Tid1,
                               [i \in 1..((BufLen - 16) \div 20) |-> Hash1])
        announce == AnnounceDatagram(Id2, Tid2, Hash2, 3)
    IN  {most,
         most \o Fill(0, BufLen - Len(most)),
         announce \o Fill(0, BufLen - Len(announce)),
         ConnectDatagram(MagicId, Tid2) \o Fill(255, 20),
         announce \o Fill(255, 20)}

Truncations(d) == {SubSeq(d, 1, n) : n \in 0..Len(d)}

Buffers == UNION {Truncations(d) : d \in Datagrams \cup LongDatagrams}

CodecNext == \E src \in Sources, datagram \in Buffers : Recv(src, datagram)

CodecSpec == Init /\ [][CodecNext]_vars

\* ----------------------------------------------- write_to_socket, stepwise
\* One call of Server::write_to_socket, one send_to per step.  Here send_to
\* may return Ok(n) for any n from 1 to the length of the slice it was
\* offered (a partial send when n is less), or fail.

\* How many times send_to may return Ok in one call.
MaxSends == 3

\* The responses written in the calls followed: Connect responses.
SendResponses ==
    {[type |-> "ConnectResponse", transaction_id |-> t, connection_id |-> c] :
        t \in {Tid1, Tid2}, c \in {Id1, Id2}}

\* `let count = w.write(&mut self.write_buf)`: write_buf[..count] and count.
WriteBuf == Writable_write(sending[1].w)
Count == Len(WriteBuf)

\* The entry of write_to_socket: `let mut start = 0`.
SendInit ==
    /\ pc = "send"
    /\ cur = <<>>
    /\ out = <<>>
    /\ connections = EmptyMap
    /\ torrents = EmptyMap
    /\ issued = EmptyMap
    /\ announces = 0
    /\ stops = {}
    /\ \E w \in SendResponses, src \in Sources :
          sending = << [w |-> w, src |-> src, start |-> 0] >>

\* One iteration of `while start < count` in which send_to returns Ok(n):
\* the socket took the first n bytes of write_buf[start..count], and
\* `start = n`.
SendTo(n) ==
    /\ pc = "send"
    /\ sending[1].start < Count
    /\ Len(out) < MaxSends
    /\ LET slice == Slice(WriteBuf, sending[1].start, Count)
       IN  /\ n \in 1..Len(slice)
           /\ out' = Append(out, [dest |-> sending[1].src,
                                  response |-> sending[1].w,
                                  bytes |-> SubSeq(slice, 1, n)])
    /\ sending' = << [sending[1] EXCEPT !.start = n] >>
    /\ UNCHANGED <<pc, cur, connections, torrents, issued, announces, stops>>

\* send_to returns Err: `?` returns it from write_to_socket.
SendToFail ==
    /\ pc = "send"
    /\ sending[1].start < Count
    /\ pc' = "stopped"
    /\ UNCHANGED <<cur, out, connections, torrents, issued, announces, sending, stops>>

\* `start < count` is false: the loop ends and write_to_socket returns Ok(()).
SendReturn ==
    /\ pc = "send"
    /\ ~(sending[1].start < Count)
    /\ pc' = "done"
    /\ UNCHANGED <<cur, out, connections, torrents, issued, announces, sending, stops>>

SendNext ==
    \/ \E n \in 1..Count : SendTo(n)
    \/ SendToFail
    \/ SendReturn

SendSpec == SendInit /\ [][SendNext]_vars


\* ------------------------------------------------- one swarm, many peers
\* GrowSpec: the run loop after MaxPeers clients connected, each from its own
\* IPv4 address and each holding the id it was sent.  The clients announce
\* Started on Hash1, a new address after the last one or the first address
\* again.

\* How many clients have connected.
MaxPeers == 340

Client(n) == V4(<<10, 0, n \div 256, n % 256>>, 6881)
ClientId(n) == <<258, 772, 1286, n>>
Clients == {Client(n) : n \in 1..MaxPeers}

\* Writable::write of an AnnounceResponse, the count it returns: 20 bytes and
\* 6 for each peer, in whatever order the peers are written.
AnnounceResponse_count(r) == 20 + 6 * Cardinality(r.peers)

\* Server::handle_announce for a swarm of many peers.  sample_peers returns
\* the whole peer set in the iteration order of the HashSet, which differs
\* from run to run; GrowSpec does not follow that order: `peers` of the
\* response is the set of the addresses sample_peers returned, and a
\* datagram handed to the socket is recorded with its length (`count`), which
\* is the same for every order, in place of its bytes.
\* w.write(&mut self.write_buf) writes into a buffer of BufLen bytes by
\* index: a response that is longer than the buffer makes the write panic.
\* count is 20 or more, so the loop of write_to_socket calls send_to once.
handle_announce_unordered(src, req) ==
    IF connection_matches(src, req.connection_id)
    THEN LET found == Get(torrents, req.info_hash)
             info == IF found # <<>>
                     THEN handle_peer(found[1], src, req.event)
                     ELSE from_first_peer(src)
             response == [type |-> "AnnounceResponse",
                          transaction_id |-> req.transaction_id,
                          interval |-> Interval,
                          leechers |-> info.leechers,
                          seeders |-> info.seeders,
                          peers |-> info.peers]
             count == AnnounceResponse_count(response)
         IN  /\ torrents' = Insert(torrents, req.info_hash, info)
             /\ IF count > BufLen
                THEN /\ out' = <<>>
                     /\ pc' = "panicked"
                ELSE \E send \in SendResults :
                        IF send = "Err"
                        THEN /\ out' = <<>>
                             /\ pc' = "stopped"
                        ELSE /\ out' = << [dest |-> src,
                                           response |-> response,
                                           count |-> count] >>
                             /\ pc' = "done"
             /\ UNCHANGED <<cur, connections>>
    ELSE /\ pc' = "done"
         /\ UNCHANGED <<cur, out, connections, torrents>>

\* Server::new and MaxPeers answered Connect requests.
GrowInit ==
    /\ pc = "recv"
    /\ cur = <<>>
    /\ out = <<>>
    /\ connections = [c \in Clients |->
                        ClientId(CHOOSE n \in 1..MaxPeers : Client(n) = c)]
    /\ torrents = EmptyMap
    /\ issued = connections
    /\ announces = 0
    /\ sending = <<>>
    /\ stops = {}

\* The numbers of the clients whose announce may arrive next: the first
\* client, and the one after the last that is in the peer set of Hash1.
Announcers ==
    LET size == IF Hash1 \in DOMAIN torrents
                THEN Cardinality(torrents[Hash1].peers)
                ELSE 0
    IN  {1, IF size < MaxPeers THEN size + 1 ELSE MaxPeers}

\* `self.handle_request(src, &r)?` for an Announce request.  The history
\* variables `announces` and `stops` are not kept in GrowSpec (all announces
\* are Started announces, and their number is not bounded).
GrowAnnounce ==
    /\ pc = "handle"
    /\ cur[1].request.ok
    /\ cur[1].request.val.kind = "Announce"
    /\ handle_announce_unordered(cur[1].src, cur[1].request.val)
    /\ UNCHANGED <<issued, announces, sending, stops>>

GrowNext ==
    \/ \E n \in Announcers :
          Recv(Client(n), AnnounceDatagram(ClientId(n), Tid1, Hash1, 2))
    \/ GrowAnnounce
    \/ LoopBack

GrowSpec == GrowInit /\ [][GrowNext]_vars

\* ------------------------------------------------------------ properties
\* The formulas below speak of one iteration of the run loop: at pc = "handle"
\* the decoded request is in cur and nothing was sent yet; the step that
\* follows is the whole handler; at pc = "done" the responses of the iteration
\* are in out.

Src == cur[1].src
Decoded == cur[1].request.ok
Req == cur[1].request.val
Handling(kind) == pc = "handle" /\ Decoded /\ Req.kind = kind
Handled(kind) == pc = "done" /\ Decoded /\ Req.kind = kind

\* The connection ids that appear on the wire in the model.
WireIds == {MagicId, NearMagicId, Id1, Id2}

\* The registry holds exactly this id for this address.
Holds(address, id) == address \in DOMAIN connections /\ connections[address] = id

\* C1: an Announce or Scrape whose connection id is not the id the registry
\* holds for its source address is dropped: no response is sent, and the swarm
\* registry and the connection registry stay as they were.
C1_UnauthorizedDropped ==
    [][ ((Handling("Announce") \/ Handling("Scrape"))
            /\ ~Holds(Src, Req.connection_id))
        => (out' = <<>> /\ pc' = "done"
            /\ torrents' = torrents /\ connections' = connections) ]_vars

\* C1 witness: an announce was dropped that carried an id the registry holds
\* for another address, while its own address holds a different id (the id it
\* was issued earlier or never), with swarms present.
C1_Witness ==
    /\ Handled("Announce")
    /\ Src \in DOMAIN connections
    /\ connections[Src] # Req.connection_id
    /\ \E other \in DOMAIN connections : connections[other] = Req.connection_id
    /\ torrents # EmptyMap
    /\ out = <<>>

\* C2: a Connect whose connection id is not the magic is dropped: no response,
\* both registries unchanged, an id issued before stays in place.
C2_ConnectGate ==
    [][ (Handling("Connect") /\ Req.connection_id # MagicId)
        => (out' = <<>> /\ pc' = "done"
            /\ connections' = connections /\ torrents' = torrents) ]_vars

\* C2 witness: a non-magic Connect from an address that holds an id was
\* dropped.
C2_Witness ==
    /\ Handled("Connect")
    /\ Req.connection_id # MagicId
    /\ Src \in DOMAIN connections
    /\ out = <<>>

\* C3: ids never expire and are replaced, not added.  (a) An Announce or a
\* Scrape carrying the id of the last Connect response sent to its source is
\* let through and answered (unless the send fails), whatever was handled in
\* between.  (b) After a successful connect from X the only id accepted from
\* X is the one just sent, and the other addresses keep theirs.
C3_IdsNeverExpire ==
    [][ /\ ((Handling("Announce") \/ Handling("Scrape"))
              /\ Src \in DOMAIN issued /\ issued[Src] = Req.connection_id)
           => (pc' = "stopped"
               \/ (Len(out') = 1 /\ out'[1].dest = Src
                   /\ (Req.kind = "Announce"
                         => Req.info_hash \in DOMAIN torrents')))
        /\ (Handling("Connect") /\ out' # <<>>)
           => /\ \A id \in WireIds :
                    connection_matches(Src, id)'
                        <=> id = out'[1].response.connection_id
              /\ \A a \in Sources \ {Src} :
                    Get(connections', a) = Get(connections, a) ]_vars

\* C3 witness: an announce carrying the id last sent to PeerA was answered
\* after PeerB connected as well and three announces were let through.
C3_Witness ==
    /\ Handled("Announce")
    /\ Src = PeerA
    /\ PeerA \in DOMAIN issued /\ issued[PeerA] = Req.connection_id
    /\ PeerB \in DOMAIN issued
    /\ announces = MaxAnnounces
    /\ Len(out) = 1


\* The Announce response sent in this iteration, when there is one.
Answer == out[1].response

\* The swarm a first IPv4 announce creates.
FirstSwarm(address) ==
    [leechers |-> 0, completed |-> 0, seeders |-> 1, peers |-> {address.addr}]

\* An Announce let through for a hash that has no swarm yet.
FirstAnnounce ==
    /\ Handling("Announce")
    /\ Holds(Src, Req.connection_id)
    /\ Req.info_hash \notin DOMAIN torrents

\* C4 as claimed: the first authorized Announce for a hash, from any source
\* and with any event, creates the swarm (seeders 1, leechers 0, completed 0,
\* the announcing address in the peer set) and the response, once sent,
\* reports it.
C4_FirstAnnounceAnySource ==
    [][ (FirstAnnounce /\ pc' = "done")
        => /\ torrents' = Insert(torrents, Req.info_hash, FirstSwarm(Src))
           /\ Len(out') = 1
           /\ out'[1].response.seeders = 1
           /\ out'[1].response.leechers = 0 ]_vars

\* C4 as amended: the same, for an Announce from an IPv4 source address.
C4_FirstAnnounceV4 ==
    [][ (FirstAnnounce /\ Src.family = "V4")
        => /\ torrents' = Insert(torrents, Req.info_hash, FirstSwarm(Src))
           /\ pc' = "done"
              => (Len(out') = 1 /\ out'[1].response.seeders = 1
                  /\ out'[1].response.leechers = 0) ]_vars

\* C4 witness: a Stopped announce from an IPv4 address created a swarm and
\* was answered with seeders 1, leechers 0.
C4_Witness ==
    /\ Handled("Announce")
    /\ Req.event = "Stopped"
    /\ Src.family = "V4"
    /\ Holds(Src, Req.connection_id)
    /\ Get(torrents, Req.info_hash) = << FirstSwarm(Src) >>
    /\ announces = 1
    /\ Len(out) = 1 /\ Answer.seeders = 1 /\ Answer.leechers = 0

\* An authorized Announce of `event` on `hash` from `address`.
Announcing(address, hash, event) ==
    /\ Handling("Announce")
    /\ Holds(Src, Req.connection_id)
    /\ Src = address /\ Req.info_hash = hash /\ Req.event = event

\* The response of this step, when it was sent, reports these counters.
Reports(seeders, leechers) ==
    pc' = "done"
    => (Len(out') = 1 /\ out'[1].response.seeders = seeders
        /\ out'[1].response.leechers = leechers)

\* The swarm states of the lifecycle example, for peers a and b.
Life1(a) == FirstSwarm(a)
Life2(a, b) == [leechers |-> 1, completed |-> 0, seeders |-> 1,
                peers |-> {a.addr, b.addr}]
Life3(a, b) == [leechers |-> 0, completed |-> 1, seeders |-> 2,
                peers |-> {a.addr, b.addr}]

\* C5: the lifecycle example, step by step, for all distinct IPv4 peers a, b
\* and every hash h.  From an empty swarm registry a's Started is answered
\* seeders 1, leechers 0; in the swarm this leaves, b's Started is answered
\* seeders 1, leechers 1; in the swarm this leaves, a's Completed is answered
\* seeders 2, leechers 0; in the swarm this leaves, a scrape of h reports
\* completed 1.
C5_Lifecycle ==
    [][ \A a, b \in {PeerA, PeerB}, h \in {Hash1, Hash2} :
          a # b =>
            /\ (Announcing(a, h, "Started") /\ torrents = EmptyMap)
               => (Get(torrents', h) = << Life1(a) >> /\ Reports(1, 0))
            /\ (Announcing(b, h, "Started") /\ Get(torrents, h) = << Life1(a) >>)
               => (Get(torrents', h) = << Life2(a, b) >> /\ Reports(1, 1))
            /\ (Announcing(a, h, "Completed")
                  /\ Get(torrents, h) = << Life2(a, b) >>)
               => (Get(torrents', h) = << Life3(a, b) >> /\ Reports(2, 0))
            /\ (Handling("Scrape") /\ Holds(Src, Req.connection_id)
                  /\ Req.info_hashes = << h >>
                  /\ Get(torrents, h) = << Life3(a, b) >>)
               => (pc' = "done"
                   => (Len(out') = 1
                       /\ out'[1].response.scrapes
                            = << [seeders |-> 2, completed |-> 1,
                                  leechers |-> 0] >>)) ]_vars

\* C5 witness: after exactly three announces let through, the swarm of Hash1
\* is the one the example ends in and a scrape of Hash1 reports it.
C5_Witness ==
    /\ Handled("Scrape")
    /\ Req.info_hashes = << Hash1 >>
    /\ announces = 3
    /\ torrents = Insert(EmptyMap, Hash1, Life3(PeerA, PeerB))
    /\ Len(out) = 1
    /\ Answer.scrapes = << [seeders |-> 2, completed |-> 1, leechers |-> 0] >>


\* C6: Started is idempotent per address.  On an existing swarm an authorized
\* Started from an IPv4 address that is not in the peer set adds the address
\* and one leecher and nothing else; from an address that is in the peer set
\* (the creator of the swarm included) it changes no swarm at all.  Either way
\* the address is in the peer set afterwards, so every further Started from it
\* is of the second kind.
C6_StartedIdempotent ==
    [][ (Handling("Announce") /\ Holds(Src, Req.connection_id)
            /\ Req.event = "Started" /\ Src.family = "V4"
            /\ Req.info_hash \in DOMAIN torrents)
        => LET info == torrents[Req.info_hash]
           IN  /\ Src.addr \in torrents'[Req.info_hash].peers
               /\ IF Src.addr \notin info.peers
                  THEN torrents' =
                         [torrents EXCEPT ![Req.info_hash] =
                            [info EXCEPT !.leechers = info.leechers + 1,
                                         !.peers = info.peers \cup {Src.addr}]]
                  ELSE torrents' = torrents ]_vars

\* C6 witness: PeerB's Started on the swarm PeerA created was answered with
\* leechers still 1 after three announces: the swarm was created, PeerB was
\* counted once, and one more announce changed nothing.
C6_Witness ==
    /\ Handled("Announce")
    /\ Src = PeerB /\ Req.event = "Started" /\ Req.info_hash = Hash1
    /\ announces = 3
    /\ torrents = Insert(EmptyMap, Hash1, Life2(PeerA, PeerB))
    /\ Len(out) = 1 /\ Answer.leechers = 1 /\ Answer.seeders = 1

\* The triple a scrape reports for a hash in the registry `reg`.
Triple(reg, hash) ==
    IF hash \in DOMAIN reg
    THEN [seeders |-> reg[hash].seeders, completed |-> reg[hash].completed,
          leechers |-> reg[hash].leechers]
    ELSE [seeders |-> 0, completed |-> 0, leechers |-> 0]

\* C7: an authorized Scrape of N hashes changes neither registry and is
\* answered (unless the send fails) with N triples, the i-th being the
\* counters of the i-th requested hash, or zeros when it has no swarm
\* (order and duplicates as requested).
C7_Scrape ==
    [][ (Handling("Scrape") /\ Holds(Src, Req.connection_id))
        => /\ torrents' = torrents
           /\ connections' = connections
           /\ pc' = "done"
              => /\ Len(out') = 1
                 /\ out'[1].response.type = "ScrapeResponse"
                 /\ Len(out'[1].response.scrapes) = Len(Req.info_hashes)
                 /\ \A i \in 1..Len(Req.info_hashes) :
                       out'[1].response.scrapes[i]
                           = Triple(torrents, Req.info_hashes[i]) ]_vars

\* C7 witness: a scrape of <<Hash2, Hash1>>, Hash2 without a swarm and Hash1
\* with completed 1, was answered with zeros first and Hash1's counters second.
C7_Witness ==
    /\ Handled("Scrape")
    /\ Req.info_hashes = << Hash2, Hash1 >>
    /\ Hash2 \notin DOMAIN torrents
    /\ Hash1 \in DOMAIN torrents /\ torrents[Hash1].completed = 1
    /\ Len(out) = 1
    /\ Answer.scrapes = << [seeders |-> 0, completed |-> 0, leechers |-> 0],
                           Triple(torrents, Hash1) >>

\* C8 as claimed: an authorized Announce from an IPv6 source address, once
\* answered, has left the swarm registry as it was: the same hashes have a
\* swarm, with the same counters and peer sets.
C8_V6AnnounceNoOp ==
    [][ (Handling("Announce") /\ Holds(Src, Req.connection_id)
            /\ Src.family = "V6" /\ pc' = "done")
        => torrents' = torrents ]_vars


\* The request passes its gate: the magic id for Connect, the id the registry
\* holds for the source for Announce and Scrape.
PassesGate ==
    IF Req.kind = "Connect" THEN Req.connection_id = MagicId
    ELSE Holds(Src, Req.connection_id)

\* The response type that answers a request.
ResponseType(kind) ==
    CASE kind = "Connect" -> "ConnectResponse"
      [] kind = "Announce" -> "AnnounceResponse"
      [] kind = "Scrape" -> "ScrapeResponse"

\* C9: a decoded request that passes its gate is answered within its own loop
\* iteration (unless the send fails) with exactly one response, of the
\* request's action, to the request's source, carrying the request's
\* transaction id (for a Connect also in the bytes ConnectResponse::write
\* produces: action 0 in [0..4), the transaction id in [4..8)); no iteration
\* sends more than one response and nothing is sent outside the handler.
C9_OneResponse ==
    [][ /\ pc = "handle" => Len(out') <= 1
        /\ pc # "handle" => Len(out') <= Len(out)
        /\ (pc = "handle" /\ Decoded /\ PassesGate /\ pc' # "stopped")
           => /\ pc' = "done"
              /\ Len(out') = 1
              /\ out'[1].dest = Src
              /\ out'[1].response.type = ResponseType(Req.kind)
              /\ out'[1].response.transaction_id = Req.transaction_id
              /\ Req.kind = "Connect"
                 => /\ read_i32(out'[1].bytes) = 0
                    /\ read_i32(SliceFrom(out'[1].bytes, 4)) = Req.transaction_id
      ]_vars

\* C9 witness: PeerB's announce with transaction id -2 was answered once,
\* to PeerB, with transaction id -2.
C9_Witness ==
    /\ Handled("Announce")
    /\ Src = PeerB
    /\ Req.transaction_id = Tid2
    /\ Len(out) = 1
    /\ out[1].dest = PeerB
    /\ Answer.type = "AnnounceResponse"
    /\ Answer.transaction_id = Tid2

\* The datagram of this iteration is one Request::from_bytes must reject:
\* fewer than 12 bytes, an action other than 0, 1, 2, an announce event other
\* than 0..3, or a length that is wrong for the action.
Undecodable ==
    LET bytes == cur[1].bytes
        len == Len(bytes)
        action == read_i32(SliceFrom(bytes, 8))
    IN  \/ len < 12
        \/ action \notin {0, 1, 2}
        \/ action = 0 /\ len < 16
        \/ action = 1 /\ len < 98
        \/ action = 1 /\ read_i32(SliceFrom(bytes, 80)) \notin 0..3
        \/ action = 2 /\ (len < 16 \/ (len - 16) % 20 # 0)

\* C10: a datagram that does not decode is dropped: no response, both
\* registries unchanged, and the run loop goes on to its next iteration (it
\* does not stop); the end of the iteration changes no registry either, so
\* the next datagram is received in the state the dropped one found.
C10_UndecodableDropped ==
    [][ /\ (pc = "handle" /\ Undecodable)
           => (out' = <<>> /\ pc' = "done"
               /\ connections' = connections /\ torrents' = torrents)
        /\ pc = "done"
           => (pc' = "recv" /\ out' = <<>>
               /\ connections' = connections /\ torrents' = torrents) ]_vars

\* C10 witness: an announce of 98 bytes with an unknown event, carrying the
\* id its source holds, was dropped while swarms exist.
C10_Witness ==
    /\ pc = "done"
    /\ Undecodable
    /\ Len(cur[1].bytes) = 98
    /\ Holds(Src, read_i64(cur[1].bytes))
    /\ torrents # EmptyMap
    /\ out = <<>>

\* C11: an I/O error ends the run loop.  A failed receive stops the loop and
\* changes nothing.  A failed send stops the loop, nothing of the failed
\* response reaches the socket (it is not retried) and the connection registry
\* is as it was.  Once the loop has stopped there is no further step: nothing
\* is received, handled or sent and no registry changes again.
C11_IoErrorStopsRun ==
    [][ /\ pc = "stopped" => FALSE
        /\ (pc = "recv" /\ pc' = "stopped")
           => (cur' = <<>> /\ out' = <<>>
               /\ connections' = connections /\ torrents' = torrents)
        /\ (pc = "handle" /\ pc' = "stopped")
           => (Decoded /\ PassesGate /\ cur' = cur /\ out' = <<>>
               /\ connections' = connections)
        /\ pc' = "stopped" => pc \in {"recv", "handle"} ]_vars

\* C11 witness: the send of the answer to PeerB's authorized announce failed
\* while PeerA holds an id and a swarm exists; the loop has stopped and
\* nothing was sent.
C11_Witness ==
    /\ pc = "stopped"
    /\ cur # <<>> /\ Decoded /\ Req.kind = "Announce"
    /\ Src = PeerB /\ Holds(PeerB, Req.connection_id)
    /\ PeerA \in DOMAIN connections
    /\ torrents # EmptyMap
    /\ out = <<>>

\* The bytes the socket took in this call of write_to_socket, in the order
\* it took them.
Flushed == Flatten([i \in 1..Len(out) |-> out[i].bytes])

IsPrefix(s, t) == Len(s) <= Len(t) /\ SubSeq(t, 1, Len(s)) = s

\* C12 as claimed: under partial sends write_to_socket sends the remainder
\* that was not sent yet and ends once all of write_buf[..count] is flushed.
\* At every point of the call the bytes the socket took are a prefix of
\* write_buf[..count] (each byte once, in order); once they are all of it
\* the loop condition is false; when the call has returned Ok they are all
\* of it.
C12_PartialSendFlushes ==
    sending # <<>>
    => /\ IsPrefix(Flushed, WriteBuf)
       /\ (pc = "send" /\ Flushed = WriteBuf) => ~(sending[1].start < Count)
       /\ pc = "done" => Flushed = WriteBuf

ParseErrors == {"UnknownAction", "UnkownAnnounceEvent", "InsufficientBytes"}

\* C13: Request::from_bytes is total on buffers of 0..2048 bytes.  Its result
\* is a Connect, Announce or Scrape request or one of the three parse errors,
\* and it is InsufficientBytes for every buffer shorter than 12 bytes, for
\* every buffer of action 0 or 2 shorter than 16 bytes, for every buffer of
\* action 1 shorter than 98 bytes, and for every buffer of action 2 whose
\* length minus 16 is not a multiple of 20.  (A read outside the buffer has
\* no value in the model: the evaluation of the decoder would fail.)
C13_DecodeTotal ==
    pc = "handle"
    => LET bytes == cur[1].bytes
           len == Len(bytes)
           result == cur[1].request
           action == read_i32(SliceFrom(bytes, 8))
           short == IF len < 12 THEN TRUE
                    ELSE \/ action \in {0, 2} /\ len < 16
                         \/ action = 1 /\ len < 98
                         \/ action = 2 /\ (len - 16) % 20 # 0
       IN  /\ len \in 0..BufLen
           /\ IF result.ok
              THEN result.val.kind \in {"Connect", "Announce", "Scrape"}
              ELSE result.err \in ParseErrors
           /\ short => result = Err("InsufficientBytes")

\* C13 witness: a buffer of 2048 bytes, a scrape whose length minus 16 is not
\* a multiple of 20, was rejected with InsufficientBytes.
C13_Witness ==
    /\ pc = "handle"
    /\ Len(cur[1].bytes) = BufLen
    /\ read_i32(SliceFrom(cur[1].bytes, 8)) = 2
    /\ cur[1].request = Err("InsufficientBytes")

\* C14 as claimed: the peer list of the answer to an authorized Announce has
\* at most num_want peers when num_want is not negative, and its peers are
\* distinct members of the peer set of the swarm of the requested hash.
C14_PeerListWithinNumWant ==
    [][ (Handling("Announce") /\ Holds(Src, Req.connection_id) /\ pc' = "done")
        => LET peers == out'[1].response.peers
           IN  /\ Req.num_want >= 0 => Len(peers) <= Req.num_want
               /\ \A i \in 1..Len(peers) :
                     peers[i] \in torrents'[Req.info_hash].peers
               /\ \A i, j \in 1..Len(peers) : i # j => peers[i] # peers[j]
      ]_vars

\* The values tried for the client-supplied fields of an announce: those of
\* TestFields, those of OtherFields, and TestFields with one field of
\* OtherFields.
ClientFields ==
    {TestFields, OtherFields}
    \cup {[TestFields EXCEPT ![k] = OtherFields[k]] : k \in DOMAIN TestFields}

\* The announce `req` with its client-supplied fields replaced.
WithFields(req, f) ==
    [req EXCEPT !.peer_id = f.peer_id, !.downloaded = f.downloaded,
                !.left = f.left, !.uploaded = f.uploaded, !.ip = f.ip,
                !.key = f.key, !.num_want = f.num_want, !.port = f.port]

\* C15: the handling of an authorized Announce does not depend on its ip,
\* port, peer_id, key, downloaded, left, uploaded and num_want fields.  Every
\* step the handler takes on the request is a step it takes, from the same
\* state and the same source, on the request with any other values in these
\* fields: the same swarm registry, the same response (counters and peers),
\* the same outcome of the loop iteration.  So two runs that differ in these
\* fields only go through the same registries and responses.  The only
\* address the step can add to a peer set is the observed source address.
C15_ClientFieldsIgnored ==
    [][ (Handling("Announce") /\ Holds(Src, Req.connection_id))
        => /\ \A f \in ClientFields : handle_announce(Src, WithFields(Req, f))
           /\ \A h \in DOMAIN torrents' :
                 torrents'[h].peers \subseteq
                   (IF h \in DOMAIN torrents THEN torrents[h].peers ELSE {})
                     \cup (IF Src.family = "V4" THEN {Src.addr} ELSE {}) ]_vars

\* C15 witness: PeerA's Started announce that names PeerB's ip and port in
\* its fields was answered; the peer set of the swarm holds PeerA's observed
\* address and not PeerB's.
C15_Witness ==
    /\ Handled("Announce")
    /\ Src = PeerA /\ Holds(PeerA, Req.connection_id)
    /\ Req.event = "Started"
    /\ write_u32(Req.ip) = PeerB.addr.ip /\ Req.port = PeerB.addr.port
    /\ Req.num_want = OtherFields.num_want
    /\ Get(torrents, Hash1) # <<>>
    /\ PeerA.addr \in torrents[Hash1].peers
    /\ PeerB.addr \notin torrents[Hash1].peers
    /\ Len(out) = 1 /\ Answer.leechers = 1

\* The value of four bytes as a big-endian two's-complement 32-bit integer,
\* and of eight bytes as a big-endian 64-bit integer (in 16-bit limbs).
BigEndian32(b) ==
    (IF b[1] >= 128 THEN b[1] - 256 ELSE b[1]) * 16777216
        + b[2] * 65536 + b[3] * 256 + b[4]
BigEndian64(b) ==
    << b[1] * 256 + b[2], b[3] * 256 + b[4], b[5] * 256 + b[6], b[7] * 256 + b[8] >>

\* The buffer of this iteration has an action of 0, 1 or 2 at [8..12) and
\* meets the length rule of that action.
MeetsLengthRule ==
    LET bytes == cur[1].bytes
        len == Len(bytes)
    IN  IF len < 12 THEN FALSE
        ELSE LET action == BigEndian32(SubSeq(bytes, 9, 12))
             IN  \/ action = 0 /\ len >= 16
                 \/ action = 1 /\ len >= 98
                 \/ action = 2 /\ len >= 16 /\ (len - 16) % 20 = 0

\* What C16 says of the result of Request::from_bytes on such a buffer.
DecodedAsLaidOut ==
    LET bytes == cur[1].bytes
        len == Len(bytes)
        action == BigEndian32(SubSeq(bytes, 9, 12))
        result == cur[1].request
    IN  /\ result.ok
        /\ result.val.kind = CASE action = 0 -> "Connect"
                                [] action = 1 -> "Announce"
                                [] action = 2 -> "Scrape"
        /\ result.val.connection_id = BigEndian64(SubSeq(bytes, 1, 8))
        /\ result.val.transaction_id = BigEndian32(SubSeq(bytes, 13, 16))
        /\ action = 2
           => /\ Len(result.val.info_hashes) = (len - 16) \div 20
              /\ \A i \in 1..((len - 16) \div 20) :
                    result.val.info_hashes[i]
                        = SubSeq(bytes, 16 + 20 * (i - 1) + 1, 16 + 20 * i)

\* C16 as claimed: for every buffer that meets the length rule of its action
\* the result is the request variant the action selects, with the connection
\* id of [0..8), the transaction id of [12..16) and, for a Scrape, the
\* (len - 16) / 20 hashes of the buffer in its order.
C16_DecodedAsLaidOutAnyEvent ==
    (pc = "handle" /\ MeetsLengthRule) => DecodedAsLaidOut

\* C16 as amended: the same, for buffers that, when their action is 1, have
\* an event code of 0..3 at [80..84).
C16_DecodedAsLaidOut ==
    (pc = "handle" /\ MeetsLengthRule
        /\ (BigEndian32(SubSeq(cur[1].bytes, 9, 12)) = 1
              => BigEndian32(SubSeq(cur[1].bytes, 81, 84)) \in 0..3))
    => DecodedAsLaidOut

\* C16 witness: a scrape of two hashes with a negative connection id and a
\* negative transaction id was decoded: two hashes, [1;20] then [2;20].
C16_Witness ==
    /\ pc = "handle"
    /\ MeetsLengthRule
    /\ Len(cur[1].bytes) = 56
    /\ Decoded /\ Req.kind = "Scrape"
    /\ Req.connection_id = Id2 /\ Req.transaction_id = -2
    /\ Req.info_hashes = << Hash1, Hash2 >>

\* An authorized Announce on the swarm of a hash that has one.
AnnouncingOn(hash) ==
    /\ Handling("Announce")
    /\ Holds(Src, Req.connection_id)
    /\ Req.info_hash = hash
    /\ hash \in DOMAIN torrents

\* What C17 says of one step, for Stopped announces from sources of the given
\* address families.
\* (a) A Stopped on an existing swarm takes one from its leechers and changes
\*     nothing else, in this swarm or any other or in the connections.
\* (b) An address that was in the peer set when its Stopped was applied is in
\*     the peer set after every later step, is in the peer list of every
\*     later answer to an announce on the hash, and a later Started from it
\*     leaves the registry as it is.
\* (c) No step removes a swarm or an address from a peer set.
StoppedKeepsPeer(families) ==
    /\ \A h \in DOMAIN torrents :
          (AnnouncingOn(h) /\ Req.event = "Stopped" /\ Src.family \in families)
          => /\ torrents' = [torrents EXCEPT
                                ![h] = [@ EXCEPT !.leechers = @ - 1]]
             /\ connections' = connections
    /\ \A s \in stops' :
          s.member
          => /\ s.hash \in DOMAIN torrents'
             /\ s.addr \in torrents'[s.hash].peers
             /\ (AnnouncingOn(s.hash) /\ pc' = "done")
                => (Len(out') = 1
                    /\ \E i \in 1..Len(out'[1].response.peers) :
                          out'[1].response.peers[i] = s.addr)
             /\ (s \in stops /\ AnnouncingOn(s.hash) /\ Req.event = "Started"
                   /\ Src.family = "V4" /\ Src.addr = s.addr)
                => torrents' = torrents
    /\ \A h \in DOMAIN torrents :
          /\ h \in DOMAIN torrents'
          /\ torrents[h].peers \subseteq torrents'[h].peers

\* C17 as claimed: the above for an authorized Stopped from any source.
C17_StoppedKeepsPeerAnySource == [][StoppedKeepsPeer({"V4", "V6"})]_vars

\* C17 as amended: the above for an authorized Stopped from an IPv4 source.
C17_StoppedKeepsPeer == [][StoppedKeepsPeer({"V4"})]_vars

\* C17 witness: PeerA created the swarm of Hash1, sent Stopped (leechers -1)
\* and then Started: the answer still lists PeerA and leechers is still -1.
C17_Witness ==
    /\ Handled("Announce")
    /\ Src = PeerA /\ Req.event = "Started" /\ Req.info_hash = Hash1
    /\ [hash |-> Hash1, addr |-> PeerA.addr, member |-> TRUE] \in stops
    /\ announces = 3
    /\ torrents = Insert(EmptyMap, Hash1,
                         [leechers |-> -1, completed |-> 0, seeders |-> 1,
                          peers |-> {PeerA.addr}])
    /\ Len(out) = 1
    /\ Answer.peers = << PeerA.addr >> /\ Answer.leechers = -1

\* C18: an authorized Completed from an IPv4 address on an existing swarm
\* changes that swarm by leechers - 1, seeders + 1, completed + 1, leaves its
\* peer set, the other swarms and the connections as they are, and the answer
\* reports the new counters; this whether or not the address is in the peer
\* set, was counted as a leecher, or sent Completed before.
C18_CompletedUnconditional ==
    [][ \A h \in DOMAIN torrents :
          (AnnouncingOn(h) /\ Req.event = "Completed" /\ Src.family = "V4")
          => /\ torrents' = [torrents EXCEPT
                                ![h] = [@ EXCEPT !.leechers = @ - 1,
                                                 !.seeders = @ + 1,
                                                 !.completed = @ + 1]]
             /\ torrents'[h].peers = torrents[h].peers
             /\ connections' = connections
             /\ Reports(torrents[h].seeders + 1, torrents[h].leechers - 1) ]_vars

\* C18 witness: PeerA created the swarm of Hash1; PeerB, which is not in its
\* peer set and never sent Started, sent Completed twice: leechers is -2,
\* seeders 3, completed 2, and the peer set is still PeerA alone.
C18_Witness ==
    /\ Handled("Announce")
    /\ Src = PeerB /\ Req.event = "Completed" /\ Req.info_hash = Hash1
    /\ announces = 3
    /\ torrents = Insert(EmptyMap, Hash1,
                         [leechers |-> -2, completed |-> 2, seeders |-> 3,
                          peers |-> {PeerA.addr}])
    /\ Len(out) = 1
    /\ Answer.leechers = -2 /\ Answer.seeders = 3

\* C19: in every reachable state every swarm has seeders + leechers at most
\* the number of addresses in its peer set, and exactly that number when no
\* Stopped announce was applied to the swarm.
C19_CountersWithinPeers ==
    \A h \in DOMAIN torrents :
        LET info == torrents[h]
            size == Cardinality(info.peers)
        IN  /\ info.seeders + info.leechers <= size
            /\ (\A s \in stops : s.hash # h)
               => info.seeders + info.leechers = size

\* C19 witness: two swarms after three announces.  No Stopped was applied to
\* the swarm of Hash1: one peer, seeders 1, leechers 0 (the sum is the size
\* of the peer set).  A Stopped was applied to the swarm of Hash2: one peer,
\* seeders 1, leechers -1 (the sum is less).
C19_Witness ==
    /\ pc = "done"
    /\ Hash1 \in DOMAIN torrents /\ Hash2 \in DOMAIN torrents
    /\ \A s \in stops : s.hash = Hash2
    /\ stops # {}
    /\ Cardinality(torrents[Hash2].peers) = 1
    /\ torrents[Hash2].seeders = 1 /\ torrents[Hash2].leechers = -1
    /\ Cardinality(torrents[Hash1].peers) = 1
    /\ torrents[Hash1].seeders = 1 /\ torrents[Hash1].leechers = 0

\* C20: every swarm has seeders >= 0 and completed >= 0; seeders - completed
\* is fixed when the swarm is created, at 1 if the announce that created it
\* came from an IPv4 address and at 0 if it came from an IPv6 address, and no
\* step changes it; no step lowers seeders or completed.
C20_SeedersAndCompleted ==
    [][ \A h \in DOMAIN torrents' :
          LET new == torrents'[h]
          IN  /\ new.seeders >= 0
              /\ new.completed >= 0
              /\ IF h \in DOMAIN torrents
                 THEN /\ new.seeders - new.completed
                            = torrents[h].seeders - torrents[h].completed
                      /\ new.seeders >= torrents[h].seeders
                      /\ new.completed >= torrents[h].completed
                 ELSE /\ Handling("Announce") /\ Req.info_hash = h
                      /\ new.seeders - new.completed
                            = (IF Src.family = "V4" THEN 1 ELSE 0) ]_vars

\* C20 witness: the swarm of Hash1 was created by an IPv6 announce and a
\* Completed was applied to it (seeders 1, completed 1); the swarm of Hash2
\* was created by an IPv4 announce (seeders 1, completed 0).
C20_Witness ==
    /\ pc = "done"
    /\ announces = 3
    /\ Hash1 \in DOMAIN torrents /\ Hash2 \in DOMAIN torrents
    /\ torrents[Hash1].peers = {}
    /\ torrents[Hash1].seeders = 1 /\ torrents[Hash1].completed = 1
    /\ torrents[Hash2].peers # {}
    /\ torrents[Hash2].seeders = 1 /\ torrents[Hash2].completed = 0

\* C21 as claimed: every response fits the write buffer of BufLen bytes.  In
\* every reachable state the Announce response for every swarm, 20 bytes and
\* 6 for each address of its peer set (the whole set is returned), is at most
\* BufLen bytes long, and so is every response handed to the socket.
C21_ResponsesFitWriteBuf ==
    /\ \A h \in DOMAIN torrents :
          20 + 6 * Cardinality(torrents[h].peers) <= BufLen
    /\ \A i \in 1..Len(out) : out[i].count <= BufLen

====
